---------------------------- MODULE Spec2Model ----------------------------
(***************************************************************************)
(* Model of dashboard.py: the Ethiopia GPS points dashboard.               *)
(*                                                                         *)
(* The module-level script loads a CSV of points and a boundary shapefile, *)
(* builds a Dash application with three cascading dropdowns and registers  *)
(* four callbacks (set_zone_options, set_woreda_options,                   *)
(* update_stats_and_graphs, update_map).                                   *)
(*                                                                         *)
(* Values.  A cell of the point table is a name (a string) or NaN (a       *)
(* missing cell, as pandas reads it).  A dropdown value or a callback      *)
(* argument is "All", a name, or Python's None.  Coordinates are tokens:   *)
(* "0", a usable number such as "9.1", or NaN.                             *)
(***************************************************************************)
EXTENDS Integers, Sequences, FiniteSets, TLC

VARIABLES
    pc,              \* position of the module-level script
    csv,             \* rows of the point CSV file (the input file)
    shp_columns,     \* columns of the boundary shapefile
    df,              \* the cleaned point table (module global df)
    regions,         \* module global regions (region dropdown content)
    region_value,    \* region-dropdown.value
    zone_options,    \* zone-dropdown.options
    zone_value,      \* zone-dropdown.value
    woreda_options,  \* woreda-dropdown.options
    woreda_value,    \* woreda-dropdown.value
    total_points,    \* total-points.children
    region_table,    \* region-table.data
    bar_chart,       \* bar-chart.figure
    pie_chart,       \* pie-chart.figure
    map_srcdoc,      \* map.srcDoc
    pending,         \* callbacks Dash still has to run for the last changes
    trigger,         \* the dropdown the user changed last
    failed,          \* callbacks that let an exception escape
    call             \* the last direct call of a function: name, arguments, result

vars == <<pc, csv, shp_columns, df, regions, region_value, zone_options,
          zone_value, woreda_options, woreda_value, total_points,
          region_table, bar_chart, pie_chart, map_srcdoc, pending, trigger,
          failed, call>>

-----------------------------------------------------------------------------
(* Bounds of the model *)

\* The largest number of rows in the CSV file.
MaxRows == 3

-----------------------------------------------------------------------------
(* Values *)

NaN == "NaN"
None == "None"
All == "All"

\* The names that occur in the model, in ascending lexicographic order
\* (the order Python's sorted() gives strings).
NameOrder == <<"Amhara", "Arsi", "Bale", "Dodota", "K1", "K2", "Oromia", "Sire">>

IndexOf(name) == CHOOSE i \in 1..Len(NameOrder) : NameOrder[i] = name

\* a <= b for two names, as Python compares str.
StrLe(a, b) == IndexOf(a) <= IndexOf(b)

\* Rows a CSV file of the model is made of.
CsvRow(r, z, w, k, la, lo) ==
    [region |-> r, zone |-> z, woreda |-> w, kebele |-> k, lat |-> la, lon |-> lo]

RowPool ==
    { CsvRow("Oromia", "Bale", "Sire",   "K2", "9.1", "38.7"),
      CsvRow("Oromia", "Arsi", "Dodota", "K1", "9.1", "38.7"),
      CsvRow("Amhara", "Arsi", "Sire",   "K1", "9.1", "38.7"),
      CsvRow(NaN,      "Bale", "Dodota", "K1", "9.1", "38.7"),
      CsvRow("Amhara", NaN,    NaN,      "K2", NaN,   "38.7"),
      CsvRow("Oromia", "Arsi", "Dodota", "K1", "0",   "38.7") }

RECURSIVE SeqsUpTo(_, _)
SeqsUpTo(S, n) ==
    IF n = 0 THEN { <<>> }
    ELSE LET shorter == SeqsUpTo(S, n - 1)
         IN  shorter \cup { Append(s, x) : s \in shorter, x \in S }

CsvFiles == SeqsUpTo(RowPool, MaxRows)

\* Arguments a callback can be called with.
RegionArgs == {All, None, "Amhara", "Oromia"}
ZoneArgs   == {All, None, "Arsi", "Bale"}
WoredaArgs == {All, None, "Dodota", "Sire"}

-----------------------------------------------------------------------------
(* pandas and Python helpers *)

\* series == value, element-wise: a missing cell equals nothing, and nothing
\* equals None.
PdEq(cell, value) == cell # NaN /\ value # None /\ cell = value

\* frame[frame[col] != value] : a mutant of the row selection.
RowsNotEqual(rows, col, value) ==
    SelectSeq(rows, LAMBDA row : ~PdEq(row[col], value))

\* frame[frame[col] == value]
RowsEqual(rows, col, value) ==
    SelectSeq(rows, LAMBDA row : PdEq(row[col], value))

\* Python truth value of a dropdown value: None and "" are false.
Truthy(value) == value # None /\ value # ""

\* frame[col] : the column as a sequence of cells
Column(rows, col) == [i \in 1..Len(rows) |-> rows[i][col]]

\* series.dropna()
DropNa(cells) == SelectSeq(cells, LAMBDA c : c # NaN)

Contains(cells, c) == \E i \in 1..Len(cells) : cells[i] = c

\* series.unique() : distinct values in order of first appearance
RECURSIVE UniqueFrom(_, _)
UniqueFrom(cells, seen) ==
    IF cells = <<>> THEN seen
    ELSE IF Contains(seen, Head(cells)) THEN UniqueFrom(Tail(cells), seen)
    ELSE UniqueFrom(Tail(cells), Append(seen, Head(cells)))

\* unique() that keeps repeated values: a mutant.
KeepRepeats(cells) == cells

Unique(cells) == UniqueFrom(cells, <<>>)

\* insert a name into an ascending sequence, after the names equal to it
RECURSIVE InsertSorted(_, _)
InsertSorted(sorted, c) ==
    IF sorted = <<>> THEN <<c>>
    ELSE IF StrLe(Head(sorted), c) THEN <<Head(sorted)>> \o InsertSorted(Tail(sorted), c)
    ELSE <<c>> \o sorted

\* sorted(cells)
RECURSIVE Sorted(_)
Sorted(cells) ==
    IF cells = <<>> THEN <<>>
    ELSE InsertSorted(Sorted(SubSeq(cells, 1, Len(cells) - 1)), cells[Len(cells)])

CountOf(cells, c) == Cardinality({i \in 1..Len(cells) : cells[i] = c})

\* insert an entry into a sequence of descending counts, after its ties
RECURSIVE InsertByCount(_, _)
InsertByCount(entries, e) ==
    IF entries = <<>> THEN <<e>>
    ELSE IF Head(entries).count >= e.count
         THEN <<Head(entries)>> \o InsertByCount(Tail(entries), e)
    ELSE <<e>> \o entries

RECURSIVE SortByCount(_)
SortByCount(entries) ==
    IF entries = <<>> THEN <<>>
    ELSE InsertByCount(SortByCount(SubSeq(entries, 1, Len(entries) - 1)),
                       entries[Len(entries)])

\* series.value_counts().reset_index() : one entry per distinct value that is
\* not missing, by descending count, ties in order of first appearance
ValueCounts(cells) ==
    LET keys == Unique(DropNa(cells))
    IN  SortByCount([i \in 1..Len(keys) |->
                        [key |-> keys[i], count |-> CountOf(cells, keys[i])]])

-----------------------------------------------------------------------------
(* 1. Load and prepare the GPS data; 2. load the shapefile *)

\* df = df[(df['lat'] != 0) & (df['lon'] != 0)] : NaN != 0 holds, so a row
\* with a missing coordinate stays.
CleanPoints(rows) ==
    SelectSeq(rows, LAMBDA row : row.lat # "0" /\ row.lon # "0")

\* regions = sorted(df['region'].dropna().unique())
RegionList(rows) == Sorted(Unique(DropNa(Column(rows, "region"))))

region_col == "adm1_name"

\* The column sets a shapefile of the model has.
ShapefileColumns == { {"geometry", "adm1_name"}, {"geometry", "ADM1_EN"} }

-----------------------------------------------------------------------------
(* 4. generate_map *)

DefaultLocation == <<"9.0", "38.5">>

\* one "if selected_x and selected_x != 'All'" statement of generate_map
MapStep(rows, col, value) ==
    IF Truthy(value) /\ value # All THEN RowsEqual(rows, col, value) ELSE rows

\* the filter of generate_map
MapFiltered(rows, selected_region, selected_zone, selected_woreda) ==
    MapStep(MapStep(MapStep(rows, "region", selected_region),
                    "zone", selected_zone),
            "woreda", selected_woreda)

\* folium.CircleMarker(location=[lat, lon], popup=...) for one row
CircleMarker(row) ==
    [location |-> <<row.lat, row.lon>>,
     popup |-> <<row.region, row.zone, row.woreda, row.kebele>>]

\* folium validates a marker's location and raises ValueError on NaN.
BadLocation(row) == row.lat = NaN \/ row.lon = NaN

NanError == "Location values cannot contain NaNs."

\* The result of a call: the value returned, or the exception raised.
Returned(value) == [raised |-> FALSE, error |-> "", value |-> value]
Raised(error) == [raised |-> TRUE, error |-> error, value |-> <<>>]

\* The rendered map: the boundary layer and the markers.
MapHtml(boundaries, markers) == [boundaries |-> boundaries, markers |-> markers]

\* generate_map that cannot draw an empty points layer: a mutant.
generate_map_needs_rows(rows, selected_region, selected_zone, selected_woreda) ==
    LET filtered == MapFiltered(rows, selected_region, selected_zone, selected_woreda)
    IN  IF filtered = <<>> \/ \E i \in 1..Len(filtered) : BadLocation(filtered[i])
        THEN Raised(NanError)
        ELSE Returned(MapHtml(TRUE, [i \in 1..Len(filtered) |-> CircleMarker(filtered[i])]))

generate_map(rows, selected_region, selected_zone, selected_woreda) ==
    LET filtered == MapFiltered(rows, selected_region, selected_zone, selected_woreda)
    IN  IF \E i \in 1..Len(filtered) : BadLocation(filtered[i])
        THEN Raised(NanError)
        ELSE Returned(MapHtml(TRUE, [i \in 1..Len(filtered) |-> CircleMarker(filtered[i])]))

-----------------------------------------------------------------------------
(* 6. Callbacks *)

\* A dropdown's options list and the value set with it.
Dropdown(options, value) == [options |-> options, value |-> value]

\* set_zone_options that returns the last zone as the selection: a mutant.
set_zone_options_select_last(rows, selected_region) ==
    LET zones == <<All>> \o Sorted(Unique(DropNa(Column(
                     IF selected_region = All THEN rows
                     ELSE RowsEqual(rows, "region", selected_region), "zone"))))
    IN  Dropdown(zones, zones[Len(zones)])

set_zone_options(rows, selected_region) ==
    LET zones == IF selected_region = All
                 THEN <<All>> \o Sorted(Unique(DropNa(Column(rows, "zone"))))
                 ELSE <<All>> \o Sorted(Unique(DropNa(Column(
                          RowsEqual(rows, "region", selected_region), "zone"))))
    IN  Dropdown(zones, All)

\* one "if selected_x != 'All'" statement of the callbacks
CallbackStep(rows, col, value) ==
    IF value # All THEN RowsEqual(rows, col, value) ELSE rows

\* set_woreda_options that filters on the region alone: a mutant.
set_woreda_options_region_only(rows, selected_region, selected_zone) ==
    Dropdown(<<All>> \o Sorted(Unique(DropNa(Column(
                 CallbackStep(rows, "region", selected_region), "woreda")))),
             All)

\* the filter of set_woreda_options
WoredaFiltered(rows, selected_region, selected_zone) ==
    CallbackStep(CallbackStep(rows, "region", selected_region),
                 "zone", selected_zone)

set_woreda_options(rows, selected_region, selected_zone) ==
    LET filtered == WoredaFiltered(rows, selected_region, selected_zone)
        woredas == <<All>> \o Sorted(Unique(DropNa(Column(filtered, "woreda"))))
    IN  Dropdown(woredas, All)

\* the filter of update_stats_and_graphs
StatsFiltered(rows, selected_region, selected_zone, selected_woreda) ==
    CallbackStep(CallbackStep(CallbackStep(rows, "region", selected_region),
                              "zone", selected_zone),
                 "woreda", selected_woreda)

\* px.bar / px.pie of a value_counts table: the column it is grouped by and
\* the series drawn.
Figure(kind, by, data) == [kind |-> kind, by |-> by, data |-> data]

\* The bar chart grouped by woreda whatever is selected: a mutant.
BarFigureAlwaysWoreda(filtered, selected_woreda) ==
    Figure("bar", "woreda", ValueCounts(Column(filtered, "woreda")))

BarFigure(filtered, selected_woreda) ==
    IF selected_woreda = All
    THEN Figure("bar", "woreda", ValueCounts(Column(filtered, "woreda")))
    ELSE Figure("bar", "kebele", ValueCounts(Column(filtered, "kebele")))

PieFigure(filtered, selected_zone) ==
    IF selected_zone = All
    THEN Figure("pie", "zone", ValueCounts(Column(filtered, "zone")))
    ELSE Figure("pie", "kebele", ValueCounts(Column(filtered, "kebele")))

update_stats_and_graphs(rows, selected_region, selected_zone, selected_woreda) ==
    LET filtered == StatsFiltered(rows, selected_region, selected_zone, selected_woreda)
    IN  [total |-> Len(filtered),
         region_data |-> ValueCounts(Column(filtered, "region")),
         bar_fig |-> BarFigure(filtered, selected_woreda),
         pie_fig |-> PieFigure(filtered, selected_zone)]

\* update_map without the try/except: a mutant.
update_map_no_except(rows, selected_region, selected_zone, selected_woreda) ==
    generate_map(rows, selected_region, selected_zone, selected_woreda)

\* try: return generate_map(...)  except Exception as e: the fallback map,
\* one marker at the default location with popup f"Error: {e}"
update_map(rows, selected_region, selected_zone, selected_woreda) ==
    LET built == generate_map(rows, selected_region, selected_zone, selected_woreda)
    IN  IF built.raised
        THEN Returned(MapHtml(FALSE,
                 << [location |-> DefaultLocation, popup |-> <<"Error: ", built.error>>] >>))
        ELSE built

-----------------------------------------------------------------------------
(* The module-level script, from the first line to the running server *)

Callbacks == {"set_zone_options", "set_woreda_options",
              "update_stats_and_graphs", "update_map"}

\* The callbacks whose Input is the given dropdown's value.
Listeners(dropdown) ==
    CASE dropdown = "region" -> Callbacks
      [] dropdown = "zone"   -> {"set_woreda_options", "update_stats_and_graphs", "update_map"}
      [] dropdown = "woreda" -> {"update_stats_and_graphs", "update_map"}

\* Dash runs a callback once no pending callback writes one of its inputs.
Ready(cb) ==
    /\ cb \in pending
    /\ cb = "set_woreda_options" => "set_zone_options" \notin pending
    /\ cb \in {"update_stats_and_graphs", "update_map"} =>
          pending \cap {"set_zone_options", "set_woreda_options"} = {}

NoFigure == Figure("none", "none", <<>>)
NoMap == MapHtml(FALSE, <<>>)
\* What the user changed, and the zone and woreda selected at that moment.
Change(dropdown) ==
    [dropdown |-> dropdown, zone_was |-> zone_value, woreda_was |-> woreda_value]

NoChange == [dropdown |-> "none", zone_was |-> None, woreda_was |-> None]
NoCall == [fn |-> "none", args |-> <<>>, filtered |-> <<>>, result |-> <<>>]

Init ==
    /\ pc = "load_points"
    /\ csv \in CsvFiles
    /\ shp_columns \in ShapefileColumns
    /\ df = <<>>
    /\ regions = <<>>
    /\ region_value = None
    /\ zone_options = <<>>
    /\ zone_value = None
    /\ woreda_options = <<>>
    /\ woreda_value = None
    /\ total_points = 0
    /\ region_table = <<>>
    /\ bar_chart = NoFigure
    /\ pie_chart = NoFigure
    /\ map_srcdoc = NoMap
    /\ pending = {}
    /\ trigger = NoChange
    /\ failed = {}
    /\ call = NoCall

ui == <<region_value, zone_options, zone_value, woreda_options, woreda_value,
        total_points, region_table, bar_chart, pie_chart, map_srcdoc,
        pending, trigger, failed>>

LoadPoints ==
    /\ pc = "load_points"
    /\ df' = CleanPoints(csv)
    /\ regions' = RegionList(CleanPoints(csv))
    /\ pc' = "load_shapefile"
    /\ UNCHANGED <<csv, shp_columns, ui, call>>

\* The shapefile loaded without the column check: a mutant.
LoadShapefileNoCheck ==
    /\ pc = "load_shapefile"
    /\ pc' = "build_app"
    /\ UNCHANGED <<csv, shp_columns, df, regions, ui, call>>

LoadShapefile ==
    /\ pc = "load_shapefile"
    /\ pc' = IF region_col \notin shp_columns THEN "aborted" ELSE "build_app"
    /\ UNCHANGED <<csv, shp_columns, df, regions, ui, call>>

\* app = Dash(...); app.layout = ... : the components and their first values
BuildApp ==
    /\ pc = "build_app"
    /\ region_value' = All
    /\ zone_options' = <<>>
    /\ zone_value' = All
    /\ woreda_options' = <<>>
    /\ woreda_value' = All
    /\ pc' = "run"
    /\ UNCHANGED <<csv, shp_columns, df, regions, total_points, region_table,
                   bar_chart, pie_chart, map_srcdoc, pending, trigger, failed, call>>

\* app.run(...) / wsgi_app = app.server : the page loads and Dash calls every
\* callback once.
RunServer ==
    /\ pc = "run"
    /\ pc' = "serving"
    /\ pending' = Callbacks
    /\ trigger' = Change("load")
    /\ UNCHANGED <<csv, shp_columns, df, regions, region_value, zone_options,
                   zone_value, woreda_options, woreda_value, total_points,
                   region_table, bar_chart, pie_chart, map_srcdoc, failed, call>>

-----------------------------------------------------------------------------
(* The user's choices.  One change of a dropdown is handled to the end, all  *)
(* its callbacks run, before the next change is taken.                     *)

Range(s) == {s[i] : i \in 1..Len(s)}

\* The options of the region dropdown: 'All' and the regions.
RegionOptions == <<All>> \o regions

SelectRegion(v) ==
    /\ pc = "serving"
    /\ pending = {}
    /\ v \in Range(RegionOptions)
    /\ v # region_value
    /\ region_value' = v
    /\ pending' = pending \cup Listeners("region")
    /\ trigger' = Change("region")
    /\ UNCHANGED <<pc, csv, shp_columns, df, regions, zone_options, zone_value,
                   woreda_options, woreda_value, total_points, region_table,
                   bar_chart, pie_chart, map_srcdoc, failed, call>>

SelectZone(v) ==
    /\ pc = "serving"
    /\ pending = {}
    /\ v \in Range(zone_options)
    /\ v # zone_value
    /\ zone_value' = v
    /\ pending' = pending \cup Listeners("zone")
    /\ trigger' = Change("zone")
    /\ UNCHANGED <<pc, csv, shp_columns, df, regions, region_value, zone_options,
                   woreda_options, woreda_value, total_points, region_table,
                   bar_chart, pie_chart, map_srcdoc, failed, call>>

SelectWoreda(v) ==
    /\ pc = "serving"
    /\ pending = {}
    /\ v \in Range(woreda_options)
    /\ v # woreda_value
    /\ woreda_value' = v
    /\ pending' = pending \cup Listeners("woreda")
    /\ trigger' = Change("woreda")
    /\ UNCHANGED <<pc, csv, shp_columns, df, regions, region_value, zone_options,
                   zone_value, woreda_options, total_points, region_table,
                   bar_chart, pie_chart, map_srcdoc, failed, call>>

-----------------------------------------------------------------------------
(* Dash runs the callbacks *)

SetZoneOptions ==
    /\ pc = "serving"
    /\ Ready("set_zone_options")
    /\ LET out == set_zone_options(df, region_value)
       IN  /\ zone_options' = out.options
           /\ zone_value' = out.value
    /\ pending' = (pending \ {"set_zone_options"}) \cup Listeners("zone")
    /\ UNCHANGED <<pc, csv, shp_columns, df, regions, region_value,
                   woreda_options, woreda_value, total_points, region_table,
                   bar_chart, pie_chart, map_srcdoc, trigger, failed, call>>

SetWoredaOptions ==
    /\ pc = "serving"
    /\ Ready("set_woreda_options")
    /\ LET out == set_woreda_options(df, region_value, zone_value)
       IN  /\ woreda_options' = out.options
           /\ woreda_value' = out.value
    /\ pending' = (pending \ {"set_woreda_options"}) \cup Listeners("woreda")
    /\ UNCHANGED <<pc, csv, shp_columns, df, regions, region_value,
                   zone_options, zone_value, total_points, region_table,
                   bar_chart, pie_chart, map_srcdoc, trigger, failed, call>>

UpdateStatsAndGraphs ==
    /\ pc = "serving"
    /\ Ready("update_stats_and_graphs")
    /\ LET out == update_stats_and_graphs(df, region_value, zone_value, woreda_value)
       IN  /\ total_points' = out.total
           /\ region_table' = out.region_data
           /\ bar_chart' = out.bar_fig
           /\ pie_chart' = out.pie_fig
    /\ pending' = pending \ {"update_stats_and_graphs"}
    /\ UNCHANGED <<pc, csv, shp_columns, df, regions, region_value,
                   zone_options, zone_value, woreda_options, woreda_value,
                   map_srcdoc, trigger, failed, call>>

\* An exception that leaves a callback updates no output.
UpdateMap ==
    /\ pc = "serving"
    /\ Ready("update_map")
    /\ LET out == update_map(df, region_value, zone_value, woreda_value)
       IN  IF out.raised
           THEN /\ failed' = failed \cup {"update_map"}
                /\ UNCHANGED map_srcdoc
           ELSE /\ map_srcdoc' = out.value
                /\ UNCHANGED failed
    /\ pending' = pending \ {"update_map"}
    /\ UNCHANGED <<pc, csv, shp_columns, df, regions, region_value,
                   zone_options, zone_value, woreda_options, woreda_value,
                   total_points, region_table, bar_chart, pie_chart, trigger, call>>

Next ==
    \/ LoadPoints
    \/ LoadShapefile
    \/ BuildApp
    \/ RunServer
    \/ \E v \in Range(RegionOptions) : SelectRegion(v)
    \/ \E v \in Range(zone_options) : SelectZone(v)
    \/ \E v \in Range(woreda_options) : SelectWoreda(v)
    \/ SetZoneOptions
    \/ SetWoredaOptions
    \/ UpdateStatsAndGraphs
    \/ UpdateMap

Spec == Init /\ [][Next]_vars

-----------------------------------------------------------------------------
(* The functions called directly, one call at a time, with any arguments,   *)
(* on a loaded table                                                       *)

CallInit ==
    /\ pc = "serving"
    /\ csv \in CsvFiles
    /\ shp_columns = {"geometry", region_col}
    /\ df = CleanPoints(csv)
    /\ regions = RegionList(CleanPoints(csv))
    /\ region_value = All
    /\ zone_options = <<>>
    /\ zone_value = All
    /\ woreda_options = <<>>
    /\ woreda_value = All
    /\ total_points = 0
    /\ region_table = <<>>
    /\ bar_chart = NoFigure
    /\ pie_chart = NoFigure
    /\ map_srcdoc = NoMap
    /\ pending = {}
    /\ trigger = NoChange
    /\ failed = {}
    /\ call = NoCall

Called(fn, args, filtered, result) ==
    [fn |-> fn, args |-> args, filtered |-> filtered, result |-> result]

CallSetZoneOptions(r) ==
    /\ call = NoCall
    /\ call' = Called("set_zone_options", <<r>>,
                      IF r = All THEN df ELSE RowsEqual(df, "region", r),
                      Returned(set_zone_options(df, r)))
    /\ UNCHANGED <<pc, csv, shp_columns, df, regions, ui>>

CallSetWoredaOptions(r, z) ==
    /\ call = NoCall
    /\ call' = Called("set_woreda_options", <<r, z>>,
                      WoredaFiltered(df, r, z),
                      Returned(set_woreda_options(df, r, z)))
    /\ UNCHANGED <<pc, csv, shp_columns, df, regions, ui>>

CallUpdateStatsAndGraphs(r, z, w) ==
    /\ call = NoCall
    /\ call' = Called("update_stats_and_graphs", <<r, z, w>>,
                      StatsFiltered(df, r, z, w),
                      Returned(update_stats_and_graphs(df, r, z, w)))
    /\ UNCHANGED <<pc, csv, shp_columns, df, regions, ui>>

CallGenerateMap(r, z, w) ==
    /\ call = NoCall
    /\ call' = Called("generate_map", <<r, z, w>>,
                      MapFiltered(df, r, z, w),
                      generate_map(df, r, z, w))
    /\ UNCHANGED <<pc, csv, shp_columns, df, regions, ui>>

CallUpdateMap(r, z, w) ==
    /\ call = NoCall
    /\ call' = Called("update_map", <<r, z, w>>,
                      MapFiltered(df, r, z, w),
                      update_map(df, r, z, w))
    /\ UNCHANGED <<pc, csv, shp_columns, df, regions, ui>>

\* The caller takes the result; the table is as it was for the next call.
CallReturn ==
    /\ call # NoCall
    /\ call' = NoCall
    /\ UNCHANGED <<pc, csv, shp_columns, df, regions, ui>>

CallNext ==
    \/ \E r \in RegionArgs : CallSetZoneOptions(r)
    \/ \E r \in RegionArgs, z \in ZoneArgs : CallSetWoredaOptions(r, z)
    \/ \E r \in RegionArgs, z \in ZoneArgs, w \in WoredaArgs :
          CallUpdateStatsAndGraphs(r, z, w)
    \/ \E r \in RegionArgs, z \in ZoneArgs, w \in WoredaArgs :
          CallGenerateMap(r, z, w)
    \/ \E r \in RegionArgs, z \in ZoneArgs, w \in WoredaArgs :
          CallUpdateMap(r, z, w)
    \/ CallReturn

CallSpec == CallInit /\ [][CallNext]_vars

-----------------------------------------------------------------------------
(* What the filter is to compute, stated row by row *)

\* A row matches a selection when each of its three cells equals the selected
\* value, wherever that value is not "All".
Matches(row, r, z, w) ==
    /\ r = All \/ row.region = r
    /\ z = All \/ row.zone = z
    /\ w = All \/ row.woreda = w

Expected(rows, r, z, w) == SelectSeq(rows, LAMBDA row : Matches(row, r, z, w))

\* The arguments of a call as a triple: a resolver's missing ones are "All".
ArgsOf(c) ==
    [region |-> c.args[1],
     zone   |-> IF Len(c.args) >= 2 THEN c.args[2] ELSE All,
     woreda |-> IF Len(c.args) >= 3 THEN c.args[3] ELSE All]

AbsentAsAll(value) == IF value = None THEN All ELSE value

FilterOrders ==
    { <<"region", "zone", "woreda">>, <<"region", "woreda", "zone">>,
      <<"zone", "region", "woreda">>, <<"zone", "woreda", "region">>,
      <<"woreda", "region", "zone">>, <<"woreda", "zone", "region">> }

\* The three constraints of a function applied in the given order.
FilteredInOrder(fn, rows, order, a) ==
    LET Step(rs, col) == IF fn = "generate_map" THEN MapStep(rs, col, a[col])
                         ELSE CallbackStep(rs, col, a[col])
    IN  Step(Step(Step(rows, order[1]), order[2]), order[3])

RECURSIVE SumCounts(_)
SumCounts(entries) ==
    IF entries = <<>> THEN 0 ELSE Head(entries).count + SumCounts(Tail(entries))

-----------------------------------------------------------------------------
(* Claims about the functions, checked under CallSpec *)

\* C1: for every selection triple of "All" and names, the subset filtered in
\* update_stats_and_graphs and in generate_map is exactly the loaded rows
\* that match the selection, in whichever order the constraints are applied.
C1_FilterExact ==
    (/\ call.fn \in {"update_stats_and_graphs", "generate_map"}
     /\ None \notin Range(call.args))
    => LET a == ArgsOf(call)
       IN  /\ call.filtered = Expected(df, a.region, a.zone, a.woreda)
           /\ \A order \in FilterOrders :
                 FilteredInOrder(call.fn, df, order, a) = call.filtered

\* C1's case: three names selected, some rows kept and some left out.
C1_Witness ==
    /\ call.fn = "update_stats_and_graphs"
    /\ All \notin Range(call.args)
    /\ None \notin Range(call.args)
    /\ call.filtered # <<>>
    /\ Len(call.filtered) < Len(df)

\* C2: wherever the filter is applied, an absent (None) selection constrains
\* nothing: the subset is the one computed with "All" in its place.
C2_AbsentMeansAll ==
    call.fn \in {"update_stats_and_graphs", "generate_map", "set_woreda_options"}
    => LET a == ArgsOf(call)
       IN  call.filtered = Expected(df, AbsentAsAll(a.region),
                                    AbsentAsAll(a.zone), AbsentAsAll(a.woreda))

\* C5: a resolver's option list is "All" first, then the distinct non-null
\* values of its column among the rows matching its arguments, ascending,
\* no value twice.
C5_OptionsShape ==
    call.fn \in {"set_zone_options", "set_woreda_options"}
    => LET a == ArgsOf(call)
           col == IF call.fn = "set_zone_options" THEN "zone" ELSE "woreda"
           opts == call.result.value.options
           matching == Expected(df, a.region, a.zone, a.woreda)
       IN  /\ ~call.result.raised
           /\ Len(opts) >= 1
           /\ opts[1] = All
           /\ \A i \in 2..(Len(opts) - 1) :
                 StrLe(opts[i], opts[i + 1]) /\ ~StrLe(opts[i + 1], opts[i])
           /\ \A i, j \in 1..Len(opts) : opts[i] = opts[j] => i = j
           /\ Range(Tail(opts)) = Range(Column(matching, col)) \ {NaN}

\* C5's case: the table holds a value twice, and holds two values against
\* their order, among the rows the resolver looks at.
C5_Witness ==
    /\ call.fn = "set_woreda_options"
    /\ Len(call.result.value.options) = 3
    /\ \E i, j \in 1..Len(call.filtered) :
          i < j /\ call.filtered[i].woreda = call.filtered[j].woreda
    /\ \E i, j \in 1..Len(call.filtered) :
          /\ i < j
          /\ call.filtered[i].woreda # call.filtered[j].woreda
          /\ call.filtered[j].woreda # NaN
          /\ call.filtered[i].woreda # NaN
          /\ StrLe(call.filtered[j].woreda, call.filtered[i].woreda)

\* C6: the counts of the count-by-region table add up to the total returned
\* for the same subset.
C6_RegionCountsSumToTotal ==
    call.fn = "update_stats_and_graphs"
    => SumCounts(call.result.value.region_data) = call.result.value.total

\* C7: the bar chart is grouped by woreda exactly when the woreda selection
\* is "All", by kebele otherwise; the pie chart by zone exactly when the zone
\* selection is "All", by kebele otherwise.
C7_Granularity ==
    call.fn = "update_stats_and_graphs"
    => LET a == ArgsOf(call)
           bar == call.result.value.bar_fig
           pie == call.result.value.pie_fig
           CountsOf(fig) ==
               /\ \A i \in 1..Len(fig.data) :
                     /\ fig.data[i].key # NaN
                     /\ fig.data[i].count =
                           CountOf(Column(call.filtered, fig.by), fig.data[i].key)
               /\ {fig.data[i].key : i \in 1..Len(fig.data)} =
                     Range(Column(call.filtered, fig.by)) \ {NaN}
       IN  /\ bar.by = (IF a.woreda = All THEN "woreda" ELSE "kebele")
           /\ pie.by = (IF a.zone = All THEN "zone" ELSE "kebele")
           /\ CountsOf(bar)
           /\ CountsOf(pie)

\* C7's case: a woreda is selected and the zone is not, so the two charts
\* differ in granularity.
C7_Witness ==
    /\ call.fn = "update_stats_and_graphs"
    /\ call.args[1] # All
    /\ call.args[2] = All
    /\ call.args[3] \notin {All, None}
    /\ call.result.value.bar_fig.by = "kebele"
    /\ call.result.value.pie_fig.by = "zone"
    /\ call.result.value.bar_fig.data # <<>>

\* C9: a selection that matches no row gives a normal result: total 0, an
\* empty region table, empty bar and pie series, a map with the boundary
\* layer and no marker, and no exception out of a callback.
C9_EmptySubset ==
    /\ call.fn \in {"set_zone_options", "set_woreda_options",
                    "update_stats_and_graphs", "update_map"}
       => ~call.result.raised
    /\ (call.fn = "update_stats_and_graphs" /\ call.filtered = <<>>)
       => /\ call.result.value.total = 0
          /\ call.result.value.region_data = <<>>
          /\ call.result.value.bar_fig.data = <<>>
          /\ call.result.value.pie_fig.data = <<>>
    /\ (call.fn \in {"generate_map", "update_map"} /\ call.filtered = <<>>)
       => /\ ~call.result.raised
          /\ call.result.value.boundaries
          /\ call.result.value.markers = <<>>

\* C9's case: the table has rows, and the selection matches none of them.
C9_Witness ==
    /\ call.fn = "generate_map"
    /\ df # <<>>
    /\ call.filtered = <<>>

-----------------------------------------------------------------------------
(* Claims about the running dashboard, checked under Spec *)

Resolvers == {"set_zone_options", "set_woreda_options"}

\* C3: after a change of the region, once both resolvers have run, the zone
\* and the woreda selections are "All"; after a change of the zone, once
\* set_woreda_options has run, the woreda selection is "All".
C3_DownstreamReset ==
    /\ (trigger.dropdown = "region" /\ pending \cap Resolvers = {})
       => zone_value = All /\ woreda_value = All
    /\ (trigger.dropdown = "zone" /\ "set_woreda_options" \notin pending)
       => woreda_value = All

\* C3's case: the region was changed while a zone and a woreda were selected,
\* and the resolvers have run.
C3_Witness ==
    /\ trigger.dropdown = "region"
    /\ trigger.zone_was \notin {All, None}
    /\ trigger.woreda_was \notin {All, None}
    /\ pending \cap Resolvers = {}

\* C4: once a change is handled, no offered option has zero matching rows:
\* every offered region, every offered zone under the selected region and
\* every offered woreda under the selected region and zone matches a row,
\* and the filtered subset of a non-empty table is not empty.
C4_NoDeadOption ==
    (pc = "serving" /\ pending = {})
    => /\ \A r \in Range(RegionOptions) \ {All} :
             Expected(df, r, All, All) # <<>>
       /\ \A z \in Range(zone_options) \ {All} :
             Expected(df, region_value, z, All) # <<>>
       /\ \A w \in Range(woreda_options) \ {All} :
             Expected(df, region_value, zone_value, w) # <<>>
       /\ region_value \in Range(RegionOptions)
       /\ zone_value \in Range(zone_options)
       /\ woreda_value \in Range(woreda_options)
       /\ df # <<>> =>
             /\ total_points > 0
             /\ StatsFiltered(df, region_value, zone_value, woreda_value) # <<>>
             /\ MapFiltered(df, region_value, zone_value, woreda_value) # <<>>

\* C4's case: a region, a zone and a woreda have been chosen one after the
\* other from the lists offered, in a table where other choices exist.
C4_Witness ==
    /\ pc = "serving"
    /\ pending = {}
    /\ region_value # All
    /\ zone_value # All
    /\ woreda_value # All
    /\ total_points < Len(df)

\* The table with every missing coordinate replaced by a usable one: the map
\* of these rows builds without error.
WithCoordinates(rows) ==
    [i \in 1..Len(rows) |->
        [rows[i] EXCEPT !.lat = IF @ = NaN THEN "9.1" ELSE @,
                        !.lon = IF @ = NaN THEN "38.7" ELSE @]]

\* C8: when building the map for the selection raises, update_map still
\* delivers a map with one marker at the default location whose popup holds
\* the error's description, no exception leaves update_map, and the total,
\* the region table and the charts are those of the same rows when the map
\* builds without error.
C8_MapFallback ==
    (/\ pc = "serving"
     /\ "update_map" \notin pending
     /\ generate_map(df, region_value, zone_value, woreda_value).raised)
    => /\ "update_map" \notin failed
       /\ Len(map_srcdoc.markers) = 1
       /\ map_srcdoc.markers[1].location = DefaultLocation
       /\ generate_map(df, region_value, zone_value, woreda_value).error
             \in Range(map_srcdoc.markers[1].popup)
       /\ "update_stats_and_graphs" \notin pending =>
             LET good == update_stats_and_graphs(WithCoordinates(df),
                             region_value, zone_value, woreda_value)
             IN  /\ ~generate_map(WithCoordinates(df), region_value,
                                  zone_value, woreda_value).raised
                 /\ total_points = good.total
                 /\ region_table = good.region_data
                 /\ bar_chart = good.bar_fig
                 /\ pie_chart = good.pie_fig

\* C8's case: a region is selected, the map of its rows could not be built,
\* and both update_map and update_stats_and_graphs have run.
C8_Witness ==
    /\ pc = "serving"
    /\ pending = {}
    /\ region_value # All
    /\ total_points > 0
    /\ generate_map(df, region_value, zone_value, woreda_value).raised

\* C10: when the boundary data lacks the name column, the script stops
\* before the Dash app is constructed: the app is never built, the server
\* never starts and no callback ever runs.
C10_AbortBeforeApp ==
    region_col \notin shp_columns
    => /\ pc \in {"load_points", "load_shapefile", "aborted"}
       /\ region_value = None /\ zone_value = None /\ woreda_value = None
       /\ pending = {}
       /\ zone_options = <<>> /\ woreda_options = <<>>
       /\ total_points = 0 /\ map_srcdoc = NoMap

\* C10's case: the column was found missing and the script has stopped.
C10_Witness ==
    /\ pc = "aborted"
    /\ region_col \notin shp_columns

=============================================================================
